---- MODULE Spec2Model ----
(***************************************************************************)
(* A model of github_api_pipeline.py: the validity filter, the record      *)
(* transformer, the two field transformers, the page ingestion loop, the   *)
(* contributor aggregation and run_source with its display step.           *)
(*                                                                         *)
(* Python values are tagged records.  A str is the sequence of its         *)
(* characters, a dict is a function from its keys (absent keys are outside *)
(* the domain), a list is a sequence of values.  A Python call is an       *)
(* outcome: Ret(v) for a returned value, Raise(e) for a raised exception.  *)
(***************************************************************************)
EXTENDS Integers, Sequences, FiniteSets, TLC

\* ------------------------------------------------------------------ values

None == [t |-> "None"]
Str(chars) == [t |-> "str", s |-> chars]
IntVal(n) == [t |-> "int", i |-> n]
List(elems) == [t |-> "list", l |-> elems]
Dict(f) == [t |-> "dict", d |-> f]

EmptyStr == Str(<<>>)
OPEN == Str(<<"o", "p", "e", "n">>)
EmptyDict == Dict(<<>>)

IsDict(v) == v.t = "dict"

\* bool(v): None, "", 0, [] and {} are falsy, everything else is truthy.
Truthy(v) ==
    CASE v.t = "None" -> FALSE
      [] v.t = "str" -> Len(v.s) > 0
      [] v.t = "int" -> v.i # 0
      [] v.t = "list" -> Len(v.l) > 0
      [] v.t = "dict" -> DOMAIN v.d # {}

\* dict.get(key, default) on a value known to be a dict.
Get(v, key, default) == IF key \in DOMAIN v.d THEN v.d[key] ELSE default

Ret(v) == [raised |-> FALSE, val |-> v]
Raise(e) == [raised |-> TRUE, exc |-> e]

\* ------------------------------------------------------- filter_valid_issues

\* A filter that leaves out the check of state.
FilterTryNoState(item) ==
    IF ~IsDict(item) THEN Raise("AttributeError")
    ELSE IF Truthy(Get(item, "pull_request", None)) THEN Ret(FALSE)
    ELSE LET user == Get(item, "user", None) IN
         IF ~Truthy(user) THEN Ret(FALSE)
         ELSE IF ~IsDict(user) THEN Raise("AttributeError")
         ELSE IF ~Truthy(Get(user, "login", None)) THEN Ret(FALSE)
         ELSE Ret(TRUE)

\* The try block of filter_valid_issues: x.get on a value that is no dict
\* raises AttributeError.
FilterTry(item) ==
    IF ~IsDict(item) THEN Raise("AttributeError")
    ELSE IF Truthy(Get(item, "pull_request", None)) THEN Ret(FALSE)
    ELSE LET user == Get(item, "user", None) IN
         IF ~Truthy(user) THEN Ret(FALSE)
         ELSE IF ~IsDict(user) THEN Raise("AttributeError")
         ELSE IF ~Truthy(Get(user, "login", None)) THEN Ret(FALSE)
         ELSE IF Get(item, "state", None) # OPEN THEN Ret(FALSE)
         ELSE Ret(TRUE)

\* An except clause that leaves out AttributeError.
FilterCaughtTypeErrorOnly == {"TypeError"}

\* The except clause of filter_valid_issues.
FilterCaught == {"AttributeError", "TypeError"}

filter_valid_issues(item) ==
    LET r == FilterTry(item) IN
    IF r.raised /\ r.exc \in FilterCaught THEN Ret(FALSE) ELSE r

\* ------------------------------------------------------ transform_issue_data

Min(a, b) == IF a < b THEN a ELSE b

\* The slice bound of item.get("title", "")[:100].
TitleLimit == 100

\* x[:100]: a str or a list is cut to its first 100 elements; None and int are
\* not subscriptable (TypeError).  Titles that are dicts are outside the
\* modelled inputs.
Slice(v) ==
    CASE v.t = "str" -> Ret(Str(SubSeq(v.s, 1, Min(Len(v.s), TitleLimit))))
      [] v.t = "list" -> Ret(List(SubSeq(v.l, 1, Min(Len(v.l), TitleLimit))))
      [] OTHER -> Raise("TypeError")

\* Iterating a value in a for clause: the elements of a list, the characters
\* of a str; None and int are not iterable (TypeError).  Iterating a
\* non-empty dict yields its keys, which are strs.
Iterate(v) ==
    CASE v.t = "list" -> Ret(v.l)
      [] v.t = "str" -> Ret([k \in 1..Len(v.s) |-> Str(<<v.s[k]>>)])
      [] v.t = "dict" -> Ret(IF DOMAIN v.d = {} THEN <<>> ELSE <<Str(<<"k">>)>>)
      [] OTHER -> Raise("TypeError")

RECURSIVE LabelNames(_)
\* [label.get("name") for label in labels if label.get("name")]
LabelNames(elems) ==
    IF elems = <<>> THEN Ret(<<>>)
    ELSE IF ~IsDict(Head(elems)) THEN Raise("AttributeError")
    ELSE LET rest == LabelNames(Tail(elems))
             name == Get(Head(elems), "name", None)
         IN  IF rest.raised THEN rest
             ELSE IF Truthy(name) THEN Ret(<<name>> \o rest.val)
             ELSE rest

\* len(x) for the values that have a length.
PyLen(v) ==
    CASE v.t = "str" -> Ret(Len(v.s))
      [] v.t = "list" -> Ret(Len(v.l))
      [] v.t = "dict" -> Ret(Cardinality(DOMAIN v.d))
      [] OTHER -> Raise("TypeError")

\* len(item.get("body") or "")
BodyLength(item) ==
    LET b == Get(item, "body", None) IN
    IF Truthy(b) THEN PyLen(b) ELSE Ret(0)

\* item.get("milestone", {}).get("title") if item.get("milestone") else None
MilestoneTitle(item) ==
    LET m == Get(item, "milestone", None) IN
    IF ~Truthy(m) THEN Ret(None)
    ELSE IF ~IsDict(Get(item, "milestone", EmptyDict)) THEN Raise("AttributeError")
    ELSE Ret(Get(m, "title", None))

\* The try block of transform_issue_data.
TransformTry(item) ==
    IF ~IsDict(item) THEN Raise("AttributeError")
    ELSE
    LET user == Get(item, "user", EmptyDict)
        title == Slice(Get(item, "title", EmptyStr))
        iter == Iterate(Get(item, "labels", List(<<>>)))
        labels == IF iter.raised THEN iter ELSE LabelNames(iter.val)
        body == BodyLength(item)
        milestone == MilestoneTitle(item)
    IN  IF title.raised THEN title
        ELSE IF labels.raised THEN labels
        ELSE IF ~IsDict(user) THEN Raise("AttributeError")
        ELSE IF body.raised THEN body
        ELSE IF milestone.raised THEN milestone
        ELSE Ret([issue_id |-> Get(item, "id", None),
                  issue_number |-> Get(item, "number", None),
                  title |-> title.val,
                  state |-> Get(item, "state", None),
                  created_at |-> Get(item, "created_at", None),
                  updated_at |-> Get(item, "updated_at", None),
                  comments_count |-> Get(item, "comments", IntVal(0)),
                  labels |-> labels.val,
                  contributor_login |-> Get(user, "login", None),
                  contributor_id |-> Get(user, "id", None),
                  contributor_type |-> Get(user, "type", None),
                  contributor_url |-> Get(user, "html_url", None),
                  contributor_avatar |-> Get(user, "avatar_url", None),
                  body_length |-> body.val,
                  has_assignee |-> Truthy(Get(item, "assignee", None)),
                  milestone |-> milestone.val])

\* The except clause of transform_issue_data.
TransformCaught == {"AttributeError", "TypeError"}

\* transform_issue_data returns the record, or None after printing the error.
transform_issue_data(item) ==
    LET r == TransformTry(item) IN
    IF r.raised /\ r.exc \in TransformCaught THEN Ret(None) ELSE r

\* Whether this call of transform_issue_data prints "Error transforming item".
TransformLogs(item) ==
    LET r == TransformTry(item) IN r.raised /\ r.exc \in TransformCaught

\* ------------------------------------------------------- field transformers

Whitespace == {" "}
LowerOf == [c \in {"a", "b", "A", "B", "1", " "} |->
              CASE c = "A" -> "a" [] c = "B" -> "b" [] OTHER -> c]
UpperOf == [c \in {"a", "b", "A", "B", "1", " "} |->
              CASE c = "a" -> "A" [] c = "b" -> "B" [] OTHER -> c]
Lower(c) == IF c \in DOMAIN LowerOf THEN LowerOf[c] ELSE c
Upper(c) == IF c \in DOMAIN UpperOf THEN UpperOf[c] ELSE c

RECURSIVE LStrip(_)
LStrip(s) == IF s # <<>> /\ Head(s) \in Whitespace THEN LStrip(Tail(s)) ELSE s

RECURSIVE RStrip(_)
RStrip(s) ==
    IF s # <<>> /\ s[Len(s)] \in Whitespace THEN RStrip(SubSeq(s, 1, Len(s) - 1)) ELSE s

\* str.strip()
Strip(s) == RStrip(LStrip(s))

\* A capitalize that only lower-cases.
CapitalizeLowerOnly(s) == [k \in 1..Len(s) |-> Lower(s[k])]

\* str.capitalize(): first character upper-cased, the rest lower-cased.
Capitalize(s) ==
    [k \in 1..Len(s) |-> IF k = 1 THEN Upper(s[k]) ELSE Lower(s[k])]

\* normalize_title: title.strip() exists on a str only (AttributeError
\* otherwise); nothing in the transformer catches it.
normalize_title(issue) ==
    LET title == issue.title IN
    IF title.t # "str" THEN Raise("AttributeError")
    ELSE Ret([k \in DOMAIN issue \cup {"normalized_title"} |->
                IF k = "normalized_title" THEN Str(Capitalize(Strip(title.s)))
                ELSE issue[k]])

\* enrich_with_label_counts
enrich_with_label_counts(issue) ==
    Ret([k \in DOMAIN issue \cup {"label_count"} |->
           IF k = "label_count" THEN Len(issue.labels) ELSE issue[k]])

\* ---------------------------------------------------------- github_api_resource

\* One raw record through the issues stream: github_api_resource yields the
\* transformed record when the filter accepts it and the transform result is
\* truthy; the yielded record then goes through normalize_title and
\* enrich_with_label_counts.  Ret(<<>>): nothing emitted; Ret(<<r>>): r emitted.
ResourceItem(item) ==
    LET keep == filter_valid_issues(item) IN
    IF keep.raised THEN keep
    ELSE IF ~keep.val THEN Ret(<<>>)
    ELSE LET transformed == transform_issue_data(item) IN
         IF transformed.raised THEN transformed
         ELSE IF transformed.val = None THEN Ret(<<>>)
         ELSE Ret(<<transformed.val>>)

IssuesItem(item) ==
    LET y == ResourceItem(item) IN
    IF y.raised \/ y.val = <<>> THEN y
    ELSE LET n == normalize_title(y.val[1]) IN
         IF n.raised THEN n
         ELSE LET e == enrich_with_label_counts(n.val) IN
              IF e.raised THEN e ELSE Ret(<<e.val>>)

\* Whether processing this record prints the transform error.
ItemLogs(item) ==
    LET keep == filter_valid_issues(item) IN
    ~keep.raised /\ keep.val /\ TransformLogs(item)

\* ---------------------------------------------------- top_contributors_resource

\* Code points of the characters the model uses, for str comparison.
CharCode == [c \in {" ", "0", "1", "2", "3", "A", "B", "a", "b"} |->
               CASE c = " " -> 32 [] c = "0" -> 48 [] c = "1" -> 49
                 [] c = "2" -> 50 [] c = "3" -> 51 [] c = "A" -> 65
                 [] c = "B" -> 66 [] c = "a" -> 97 [] c = "b" -> 98]

RECURSIVE StrGreater(_, _)
\* a > b on strs: lexicographic by code point.
StrGreater(a, b) ==
    IF a = <<>> THEN FALSE
    ELSE IF b = <<>> THEN TRUE
    ELSE IF CharCode[Head(a)] # CharCode[Head(b)] THEN CharCode[Head(a)] > CharCode[Head(b)]
    ELSE StrGreater(Tail(a), Tail(b))

\* a > b: defined between two strs and between two ints, TypeError otherwise.
Greater(a, b) ==
    IF a.t = "str" /\ b.t = "str" THEN Ret(StrGreater(a.s, b.s))
    ELSE IF a.t = "int" /\ b.t = "int" THEN Ret(a.i > b.i)
    ELSE Raise("TypeError")

\* Lists and dicts are unhashable: they are no dict key and no set member.
Hashable(v) == v.t \notin {"list", "dict"}

\* A default whose count already includes the first issue.
NewStatsCountsFirst(login, issue) ==
    [contributor_login |-> login,
     contributor_id |-> issue.contributor_id,
     contributor_type |-> issue.contributor_type,
     contributor_url |-> issue.contributor_url,
     contributor_avatar |-> issue.contributor_avatar,
     total_issues |-> 1,
     total_comments |-> 0,
     total_body_length |-> 0,
     issues_with_assignee |-> 0,
     issues_with_milestone |-> 0,
     labels_used |-> {},
     latest_activity |-> issue.updated_at]

\* The dict passed to contributor_stats.setdefault for a login not yet seen.
NewStats(login, issue) ==
    [contributor_login |-> login,
     contributor_id |-> issue.contributor_id,
     contributor_type |-> issue.contributor_type,
     contributor_url |-> issue.contributor_url,
     contributor_avatar |-> issue.contributor_avatar,
     total_issues |-> 0,
     total_comments |-> 0,
     total_body_length |-> 0,
     issues_with_assignee |-> 0,
     issues_with_milestone |-> 0,
     labels_used |-> {},
     latest_activity |-> issue.updated_at]

\* A lookup that never finds the login.
StatsIndexNeverFound(stats, login) == 0

\* The position of login in the insertion-ordered contributor_stats, 0 if absent.
StatsIndex(stats, login) ==
    IF \E k \in 1..Len(stats) : stats[k].contributor_login = login
    THEN CHOOSE k \in 1..Len(stats) : stats[k].contributor_login = login
    ELSE 0

\* The updates of one stats dict for one issue (the body of the first loop
\* after setdefault).
UpdateStats(st, issue) ==
    LET truthyLabels == {issue.labels[k] : k \in {j \in 1..Len(issue.labels) : Truthy(issue.labels[j])}}
        newer == IF Truthy(issue.updated_at)
                 THEN Greater(issue.updated_at, st.latest_activity)
                 ELSE Ret(FALSE)
    IN  IF issue.comments_count.t # "int" THEN Raise("TypeError")
        ELSE IF \E l \in truthyLabels : ~Hashable(l) THEN Raise("TypeError")
        ELSE IF newer.raised THEN newer
        ELSE Ret([st EXCEPT
                !.total_issues = @ + 1,
                !.total_comments = @ + issue.comments_count.i,
                !.total_body_length = @ + issue.body_length,
                !.issues_with_assignee = IF issue.has_assignee THEN @ + 1 ELSE @,
                !.issues_with_milestone = IF Truthy(issue.milestone) THEN @ + 1 ELSE @,
                !.labels_used = @ \cup truthyLabels,
                !.latest_activity = IF newer.val THEN issue.updated_at ELSE @])

\* One iteration of the first loop of top_contributors_resource over the
\* insertion-ordered contributor_stats.
Accumulate(stats, issue) ==
    LET login == issue.contributor_login IN
    IF ~Truthy(login) THEN Ret(stats)
    ELSE IF ~Hashable(login) THEN Raise("TypeError")
    ELSE LET k == StatsIndex(stats, login)
             withKey == IF k = 0 THEN Append(stats, NewStats(login, issue)) ELSE stats
             at == IF k = 0 THEN Len(withKey) ELSE k
             upd == UpdateStats(withKey[at], issue)
         IN  IF upd.raised THEN upd
             ELSE Ret([withKey EXCEPT ![at] = upd.val])

\* A score that weighs a comment like an issue.
ScoreHalvesCommentsDoubled(st) ==
    2 * (st.total_issues * 2 + st.total_comments * 2)
      + st.issues_with_assignee + st.issues_with_milestone

\* contribution_score is a float with weights 2, 1, 0.5 and 0.5: the model
\* holds it as a whole number of halves.
ScoreHalves(st) ==
    2 * (st.total_issues * 2 + st.total_comments * 1)
      + st.issues_with_assignee + st.issues_with_milestone

\* The body of the second loop for one stats dict with total_issues > 0.
\* unique_labels lists labels_used in an order the code does not fix: the
\* model keeps the set.
Finalize(st) ==
    [contributor_login |-> st.contributor_login,
     contributor_id |-> st.contributor_id,
     contributor_type |-> st.contributor_type,
     contributor_url |-> st.contributor_url,
     contributor_avatar |-> st.contributor_avatar,
     total_issues |-> st.total_issues,
     total_comments |-> st.total_comments,
     issues_with_assignee |-> st.issues_with_assignee,
     issues_with_milestone |-> st.issues_with_milestone,
     latest_activity |-> st.latest_activity,
     avg_body_length |-> IF st.total_body_length > 0
                         THEN st.total_body_length \div st.total_issues ELSE 0,
     labels_count |-> Cardinality(st.labels_used),
     unique_labels |-> st.labels_used,
     contribution_score |-> ScoreHalves(st)]

\* ------------------------------------------------------------------ inputs

U1 == Str(<<"u", "1">>)
U2 == Str(<<"u", "2">>)

\* dict(rec) with some keys replaced or added, and with some keys removed.
With(rec, over) == [k \in DOMAIN rec \cup DOMAIN over |->
                      IF k \in DOMAIN over THEN over[k] ELSE rec[k]]
Without(rec, keys) == [k \in DOMAIN rec \ keys |-> rec[k]]

Label(chars) == Dict([name |-> Str(chars)])
User(login, id) == Dict([login |-> login, id |-> IntVal(id), type |-> Str(<<"U">>)])

\* A well-formed open issue, shaped like the records of the integration test.
BaseIssue ==
    [id |-> IntVal(1), number |-> IntVal(1),
     title |-> Str(<<"a", "b">>),
     state |-> OPEN,
     created_at |-> Str(<<"0", "1">>),
     updated_at |-> Str(<<"0", "2">>),
     comments |-> IntVal(3),
     labels |-> List(<<Label(<<"b">>), Label(<<"a">>)>>),
     user |-> User(U1, 101),
     body |-> Str(<<"a", "b", "a">>),
     assignee |-> None,
     milestone |-> None,
     pull_request |-> None]

Issue1 == Dict(BaseIssue)
\* another contributor, with assignee and milestone, a label without a name
Issue2 == Dict(With(BaseIssue,
    [id |-> IntVal(2), number |-> IntVal(2), title |-> Str(<<" ", "B", "A", " ">>),
     updated_at |-> Str(<<"0", "3">>), comments |-> IntVal(2),
     labels |-> List(<<Label(<<"b">>), EmptyDict>>),
     user |-> User(U2, 102), assignee |-> User(U1, 101),
     milestone |-> Dict([title |-> Str(<<"1">>)])]))
\* the first contributor again: no updated_at, null body, milestone titled ""
Issue3 == Dict(Without(With(BaseIssue,
    [id |-> IntVal(3), number |-> IntVal(3), title |-> Str(<<"1", "a">>),
     comments |-> IntVal(1), labels |-> List(<<>>), body |-> None,
     assignee |-> User(U2, 102), milestone |-> Dict([title |-> EmptyStr])]),
    {"updated_at"}))
\* a pull request
PullRequest == Dict(With(BaseIssue,
    [id |-> IntVal(4), number |-> IntVal(4), user |-> User(U2, 102),
     pull_request |-> Dict([url |-> Str(<<"a">>)])]))
\* labels is null: the transform fails on it
NullLabels == Dict(With(BaseIssue,
    [id |-> IntVal(5), number |-> IntVal(5), labels |-> None]))
\* title is a list: the transform slices it, title.strip() does not exist
ListTitle == Dict(With(BaseIssue,
    [id |-> IntVal(6), number |-> IntVal(6), title |-> List(<<Str(<<"a">>)>>)]))
\* comments is null: the transform copies it into comments_count
NullComments == Dict(With(BaseIssue,
    [id |-> IntVal(7), number |-> IntVal(7), comments |-> None]))

\* a closed issue, and an issue whose user has no login
ClosedIssue == Dict(With(BaseIssue,
    [id |-> IntVal(8), number |-> IntVal(8), state |-> Str(<<"c">>)]))
NoLogin == Dict(With(BaseIssue,
    [id |-> IntVal(9), number |-> IntVal(9), user |-> Dict([id |-> IntVal(103)])]))

RawPool == {Issue1, Issue2, Issue3, PullRequest, NullLabels, ListTitle, NullComments,
            ClosedIssue, NoLogin}

\* The most raw records one run's upstream holds.
MaxRecords == 2

RECURSIVE SeqsUpTo(_, _)
SeqsUpTo(S, n) ==
    IF n = 0 THEN {<<>>}
    ELSE LET shorter == SeqsUpTo(S, n - 1) IN
         shorter \cup {Append(q, x) : q \in {r \in shorter : Len(r) = n - 1}, x \in S}

RECURSIVE Paginate(_, _, _)
\* The records flat cut into pages after the positions in cuts.
Paginate(flat, cuts, from) ==
    IF from > Len(flat) THEN <<>>
    ELSE LET later == {c \in cuts : c >= from}
             to == IF later = {} THEN Len(flat)
                   ELSE Min(Len(flat), CHOOSE c \in later : \A d \in later : c <= d)
         IN  <<SubSeq(flat, from, to)>> \o Paginate(flat, cuts, to + 1)

\* The upstreams: every sequence of at most MaxRecords records of the pool,
\* cut into pages in every way; no page at all, and one empty page.
Upstreams ==
    {<< <<>> >>} \cup
    {Paginate(flat, cuts, 1) :
        flat \in SeqsUpTo(RawPool, MaxRecords),
        cuts \in SUBSET (1..(MaxRecords - 1))}

\* The arguments of the single calls of the filter: values that are no dict,
\* and dicts with every combination of pull_request, user and state, each
\* absent, null, of a wrong type or well-formed.
Absent == [t |-> "absent"]

FilterItem(pr, us, st) ==
    LET given == [pull_request |-> pr, user |-> us, state |-> st] IN
    Dict([k \in {x \in DOMAIN given : given[x] # Absent} |-> given[k]])

FilterInputs ==
    {None, Str(<<"a">>), IntVal(1), List(<<>>)} \cup
    {FilterItem(pr, us, st) :
        pr \in {Absent, None, EmptyDict, Dict([url |-> Str(<<"a">>)])},
        us \in {Absent, None, EmptyStr, Str(<<"a">>), IntVal(1), List(<<IntVal(1)>>),
                EmptyDict, Dict([id |-> IntVal(101)]), Dict([login |-> None]),
                Dict([login |-> EmptyStr]), User(U1, 101)},
        st \in {Absent, None, OPEN, Str(<<"c">>), IntVal(1)}}

\* The longest title of the single calls of the issues stream.
MaxTitleLen == 3

TitleChars == {" ", "a", "B", "1"}

\* The arguments of the single calls of the issues stream: the well-formed
\* issue with every title over TitleChars, and with no title, a null title and
\* a list as title.
TitleInputs ==
    {Dict(With(BaseIssue, [title |-> Str(chars)])) :
        chars \in SeqsUpTo(TitleChars, MaxTitleLen)}
    \cup {Dict(Without(BaseIssue, {"title"})),
          Dict(With(BaseIssue, [title |-> None])),
          ListTitle}

RECURSIVE Flatten(_)
Flatten(pages) == IF pages = <<>> THEN <<>> ELSE Head(pages) \o Flatten(Tail(pages))

\* ------------------------------------------------------------------- state

VARIABLES
    upstream,           \* the pages paginate() returns, to either pass
    runPc,              \* where run_source is
    output,             \* what has been printed, in order
    issuesPc,           \* the issues stream: "run", "done" or "failed"
    iPage, iIdx,        \* its position: page, and record within the page
    issuesOut,          \* the records the issues stream has emitted
    aggPc,              \* top_contributors_resource: "consume", "emit", "done", "failed"
    aPage, aIdx,        \* the position of its own ingestion pass
    contributor_stats,  \* its dict, in insertion order
    emitIdx,            \* the position of its second loop
    summaries,          \* the summaries it has yielded
    arg, result         \* a single call: its argument and its outcome

vars == <<upstream, runPc, output, issuesPc, iPage, iIdx, issuesOut,
          aggPc, aPage, aIdx, contributor_stats, emitIdx, summaries, arg, result>>

runVars == <<runPc, output>>
issuesVars == <<issuesPc, iPage, iIdx, issuesOut>>
aggVars == <<aggPc, aPage, aIdx, contributor_stats, emitIdx, summaries>>
callVars == <<arg, result>>

Pending == [raised |-> FALSE, pending |-> TRUE]

Ev(name) == [ev |-> name]

InitStreams ==
    /\ issuesPc = "run" /\ iPage = 1 /\ iIdx = 1 /\ issuesOut = <<>>
    /\ aggPc = "consume" /\ aPage = 1 /\ aIdx = 1
    /\ contributor_stats = <<>> /\ emitIdx = 1 /\ summaries = <<>>

Init ==
    /\ upstream \in Upstreams
    /\ runPc = "start" /\ output = <<>>
    /\ InitStreams
    /\ arg = None /\ result = Pending

\* ------------------------------------------------------- the issues stream

Extracting == runPc = "extract" /\ issuesPc # "failed" /\ aggPc # "failed"

\* The issues stream takes the next record of the current page through
\* github_api_resource | normalize_title | enrich_with_label_counts.  An
\* exception that leaves a transformer ends the stream.
IssuesStep ==
    /\ Extracting /\ issuesPc = "run"
    /\ iPage <= Len(upstream) /\ iIdx <= Len(upstream[iPage])
    /\ LET item == upstream[iPage][iIdx]
           r == IssuesItem(item)
       IN  /\ output' = IF ItemLogs(item) THEN Append(output, Ev("transform_error"))
                         ELSE output
           /\ IF r.raised
              THEN issuesPc' = "failed" /\ UNCHANGED <<iPage, iIdx, issuesOut>>
              ELSE /\ iIdx' = iIdx + 1
                   /\ issuesOut' = issuesOut \o r.val
                   /\ UNCHANGED <<issuesPc, iPage>>
    /\ UNCHANGED <<upstream, runPc, aggVars, callVars>>

\* for page in paginate(...): the page is exhausted, the next one is fetched.
IssuesNextPage ==
    /\ Extracting /\ issuesPc = "run"
    /\ iPage <= Len(upstream) /\ iIdx > Len(upstream[iPage])
    /\ iPage' = iPage + 1 /\ iIdx' = 1
    /\ UNCHANGED <<upstream, runVars, issuesPc, issuesOut, aggVars, callVars>>

\* paginate() has no further page: the issues stream ends.
IssuesEnd ==
    /\ Extracting /\ issuesPc = "run"
    /\ iPage > Len(upstream)
    /\ issuesPc' = "done"
    /\ UNCHANGED <<upstream, runVars, iPage, iIdx, issuesOut, aggVars, callVars>>

\* ------------------------------------------- top_contributors_resource, steps

\* The first loop takes the next record of its own github_api_resource pass
\* (no field transformers) and accumulates it.
AggStep ==
    /\ Extracting /\ aggPc = "consume"
    /\ aPage <= Len(upstream) /\ aIdx <= Len(upstream[aPage])
    /\ LET item == upstream[aPage][aIdx]
           y == ResourceItem(item)
           acc == IF y.raised \/ y.val = <<>> THEN Ret(contributor_stats)
                  ELSE Accumulate(contributor_stats, y.val[1])
       IN  /\ output' = IF ItemLogs(item) THEN Append(output, Ev("transform_error"))
                         ELSE output
           /\ IF y.raised \/ acc.raised
              THEN aggPc' = "failed" /\ UNCHANGED <<aPage, aIdx, contributor_stats>>
              ELSE /\ aIdx' = aIdx + 1
                   /\ contributor_stats' = acc.val
                   /\ UNCHANGED <<aggPc, aPage>>
    /\ UNCHANGED <<upstream, runPc, issuesVars, emitIdx, summaries, callVars>>

AggNextPage ==
    /\ Extracting /\ aggPc = "consume"
    /\ aPage <= Len(upstream) /\ aIdx > Len(upstream[aPage])
    /\ aPage' = aPage + 1 /\ aIdx' = 1
    /\ UNCHANGED <<upstream, runVars, issuesVars, aggPc, contributor_stats,
                   emitIdx, summaries, callVars>>

\* The input is exhausted: the first loop ends and the second begins.
AggExhausted ==
    /\ Extracting /\ aggPc = "consume"
    /\ aPage > Len(upstream)
    /\ aggPc' = "emit"
    /\ UNCHANGED <<upstream, runVars, issuesVars, aPage, aIdx, contributor_stats,
                   emitIdx, summaries, callVars>>

\* One iteration of the second loop: finalize and yield the next stats dict.
AggYield ==
    /\ Extracting /\ aggPc = "emit"
    /\ emitIdx <= Len(contributor_stats)
    /\ summaries' = IF contributor_stats[emitIdx].total_issues > 0
                    THEN Append(summaries, Finalize(contributor_stats[emitIdx]))
                    ELSE summaries
    /\ emitIdx' = emitIdx + 1
    /\ UNCHANGED <<upstream, runVars, issuesVars, aggPc, aPage, aIdx,
                   contributor_stats, callVars>>

AggEnd ==
    /\ Extracting /\ aggPc = "emit"
    /\ emitIdx > Len(contributor_stats)
    /\ aggPc' = "done"
    /\ UNCHANGED <<upstream, runVars, issuesVars, aPage, aIdx, contributor_stats,
                   emitIdx, summaries, callVars>>

\* ------------------------------------------------- display_top_contributors

\* LIMIT 20
TopLimit == 20

\* ORDER BY contribution_score DESC, total_issues DESC
RankedBefore(a, b) ==
    \/ a.contribution_score > b.contribution_score
    \/ /\ a.contribution_score = b.contribution_score
       /\ a.total_issues >= b.total_issues

\* The results the query can give over the loaded table: the rows in a ranked
\* order (ties in any order), cut to the limit.
QueryRows(table) ==
    LET n == Len(table)
        orders == {f \in [1..n -> 1..n] :
                     /\ \A i, j \in 1..n : i # j => f[i] # f[j]
                     /\ \A i, j \in 1..n : i < j => RankedBefore(table[f[i]], table[f[j]])}
    IN  {[k \in 1..Min(n, TopLimit) |-> table[f[k]]] : f \in orders}

RECURSIVE SumOf(_, _)
SumOf(rows, field) ==
    IF rows = <<>> THEN 0 ELSE Head(rows)[field] + SumOf(Tail(rows), field)

\* What the try block prints for the fetched rows.
TablePrint(rows) ==
    IF rows # <<>>
    THEN <<Ev("table_header")>>
         \o [k \in 1..Len(rows) |->
               [ev |-> "row", rank |-> k, login |-> rows[k].contributor_login,
                score |-> rows[k].contribution_score]]
         \o <<[ev |-> "totals", contributors |-> Len(rows),
               issues |-> SumOf(rows, "total_issues"),
               comments |-> SumOf(rows, "total_comments")]>>
    ELSE <<Ev("no_data")>>

\* What display_top_contributors can print: the table for some query result;
\* or, the query having raised, the error and then the table list or the
\* message that it could not be listed.  It returns normally in each case.
display_top_contributors(table) ==
    {TablePrint(rows) : rows \in QueryRows(table)}
    \cup {<<Ev("display_error"), Ev(fallback)>> : fallback \in {"tables", "tables_error"}}

\* ------------------------------------------------------------------ run_source

\* A handler that prints the message and no stack trace.
RunHandlerNoTraceback == <<Ev("run_error")>>

\* What the except clause of run_source prints before it re-raises.
RunHandler == <<Ev("run_error"), Ev("traceback")>>

\* dlt.pipeline(...) returns and the start message is printed, or it raises.
RunStart ==
    /\ runPc = "start"
    /\ \/ runPc' = "extract" /\ output' = Append(output, Ev("starting"))
       \/ runPc' = "failed" /\ output' = output \o RunHandler
    /\ UNCHANGED <<upstream, issuesVars, aggVars, callVars>>

\* pipeline.run(...) raises: a resource raised, or the source, the
\* normalization or the load failed.
RunRaise ==
    /\ runPc = "extract"
    /\ runPc' = "failed" /\ output' = output \o RunHandler
    /\ UNCHANGED <<upstream, issuesVars, aggVars, callVars>>

\* pipeline.run(...) returns, both resources exhausted and loaded; the load
\* information is printed.
RunLoaded ==
    /\ runPc = "extract" /\ issuesPc = "done" /\ aggPc = "done"
    /\ runPc' = "loaded" /\ output' = Append(output, Ev("load_info"))
    /\ UNCHANGED <<upstream, issuesVars, aggVars, callVars>>

RunDisplay ==
    /\ runPc = "loaded"
    /\ \E printed \in display_top_contributors(summaries) :
          output' = output \o printed
    /\ runPc' = "displayed"
    /\ UNCHANGED <<upstream, issuesVars, aggVars, callVars>>

RunSuccess ==
    /\ runPc = "displayed"
    /\ runPc' = "success" /\ output' = Append(output, Ev("success"))
    /\ UNCHANGED <<upstream, issuesVars, aggVars, callVars>>

\* ------------------------------------------------------------ single calls

InitCall(inputs) ==
    /\ arg \in inputs /\ result = Pending
    /\ upstream = <<>>
    /\ runPc = "idle" /\ output = <<>>
    /\ InitStreams

\* filter_valid_issues(arg) is called.
CallFilter ==
    /\ runPc = "idle" /\ result = Pending
    /\ result' = filter_valid_issues(arg)
    /\ UNCHANGED <<upstream, runVars, issuesVars, aggVars, arg>>

\* arg goes through the issues stream as its only record.
CallIssuesItem ==
    /\ runPc = "idle" /\ result = Pending
    /\ result' = IssuesItem(arg)
    /\ UNCHANGED <<upstream, runVars, issuesVars, aggVars, arg>>

InitFilter == InitCall(FilterInputs)
SpecFilter == InitFilter /\ [][CallFilter]_vars

InitTitle == InitCall(TitleInputs)
SpecTitle == InitTitle /\ [][CallIssuesItem]_vars

Next ==
    \/ RunStart \/ RunRaise \/ RunLoaded \/ RunDisplay \/ RunSuccess
    \/ IssuesStep \/ IssuesNextPage \/ IssuesEnd
    \/ AggStep \/ AggNextPage \/ AggExhausted \/ AggYield \/ AggEnd

Spec == Init /\ [][Next]_vars

\* =================================================================== claims

Called == result # Pending

\* The record carries a pull_request field that is not null.
HasPullRequest(item) ==
    /\ IsDict(item)
    /\ "pull_request" \in DOMAIN item.d
    /\ item.d.pull_request # None

\* C1 (as claimed): for every raw record whose pull_request field is present
\* and non-null, whatever its value and whatever user and state are,
\* filter_valid_issues returns false.
C1_PullRequestRejected ==
    (Called /\ HasPullRequest(arg)) => result = Ret(FALSE)

\* The user of the record is absent, null, no object, or has no truthy login.
BadUser(item) ==
    \/ ~IsDict(item)
    \/ "user" \notin DOMAIN item.d
    \/ ~IsDict(item.d.user)
    \/ "login" \notin DOMAIN item.d.user.d
    \/ ~Truthy(item.d.user.d.login)

\* C2: filter_valid_issues never raises, and for a null record, an empty
\* record, a record that is no mapping, or a record whose user is absent,
\* null, no object or without a truthy login, it returns false as a value.
C2_FilterNeverRaises ==
    Called => /\ ~result.raised
              /\ result.val \in BOOLEAN
              /\ BadUser(arg) => result = Ret(FALSE)

\* C2's case: the call on a record whose user is a string, where user.get
\* raises inside the try block, has returned false.
C2_Witness ==
    /\ Called /\ result = Ret(FALSE)
    /\ IsDict(arg) /\ "user" \in DOMAIN arg.d /\ arg.d.user = Str(<<"a">>)
    /\ FilterTry(arg).raised

\* ---- the issues stream and the aggregation, against the upstream records

\* The raw record passes the filter and its transform does not fail.
Accepted(item) ==
    /\ filter_valid_issues(item) = Ret(TRUE)
    /\ ~TransformTry(item).raised

RECURSIVE AcceptedIssues(_)
\* The transformed records of the accepted ones among raw, in order.
AcceptedIssues(raw) ==
    IF raw = <<>> THEN <<>>
    ELSE (IF Accepted(Head(raw)) THEN <<TransformTry(Head(raw)).val>> ELSE <<>>)
         \o AcceptedIssues(Tail(raw))

\* An emitted record without the two fields the field transformers add.
Base(issue) == [k \in DOMAIN issue \ {"normalized_title", "label_count"} |-> issue[k]]

IssuesEnded == issuesPc \in {"done", "failed"}

\* C3 (as claimed): once the issues stream has ended, it has emitted exactly
\* one normalized record for each raw record that passes the filter and whose
\* transform did not fail, in page order and in record order, and nothing
\* else.
C3_EmitsEveryAccepted ==
    IssuesEnded =>
        LET want == AcceptedIssues(Flatten(upstream)) IN
        /\ Len(issuesOut) = Len(want)
        /\ \A k \in 1..Len(issuesOut) : Base(issuesOut[k]) = want[k]

\* C4: every record the issues stream has emitted has state "open" and a
\* contributor_login that is neither null nor empty.
C4_EmittedOpenWithLogin ==
    \A k \in 1..Len(issuesOut) :
        /\ issuesOut[k].state = OPEN
        /\ issuesOut[k].contributor_login # None
        /\ Truthy(issuesOut[k].contributor_login)

\* C4's case: the stream has gone past a closed issue and has emitted the
\* record after it.
C4_Witness ==
    /\ Len(issuesOut) = 1
    /\ iPage <= Len(upstream) /\ iIdx > 2
    /\ upstream[iPage][1] = ClosedIssue

\* C5 (as claimed): no raw record, however malformed, aborts a stream: neither
\* the issues stream nor the contributor aggregation ends on an exception.
C5_NoStreamAborts ==
    issuesPc # "failed" /\ aggPc # "failed"

\* The distinct logins of the issues, and the number of issues of a login.
LoginsOf(issues) == {issues[k].contributor_login : k \in 1..Len(issues)}
CountOf(issues, login) ==
    Cardinality({k \in 1..Len(issues) : issues[k].contributor_login = login})

\* C6: top_contributors_resource emits no summary before its input is
\* exhausted; when it has finished, it has emitted exactly one summary per
\* distinct contributor_login of its input stream, whose total_issues is the
\* number of stream issues with that login, and at least 1.
C6_SummariesAtExhaustion ==
    /\ summaries # <<>> => (aPage > Len(upstream) /\ aggPc \in {"emit", "done"})
    /\ aggPc = "done" =>
          LET stream == AcceptedIssues(Flatten(upstream)) IN
          /\ Len(summaries) = Cardinality(LoginsOf(stream))
          /\ {summaries[k].contributor_login : k \in 1..Len(summaries)} = LoginsOf(stream)
          /\ \A k \in 1..Len(summaries) :
                /\ summaries[k].total_issues
                      = CountOf(stream, summaries[k].contributor_login)
                /\ summaries[k].total_issues >= 1

\* C6's case: the aggregation has finished over two issues of one contributor.
C6_Witness ==
    /\ aggPc = "done"
    /\ Len(summaries) = 1 /\ summaries[1].total_issues = 2

\* C7: the contribution_score of every emitted summary is
\* total_issues*2 + total_comments*1 + issues_with_assignee*0.5 +
\* issues_with_milestone*0.5 of the same summary (here in halves).
C7_ScoreFormula ==
    \A k \in 1..Len(summaries) :
        summaries[k].contribution_score
            = 4 * summaries[k].total_issues + 2 * summaries[k].total_comments
              + summaries[k].issues_with_assignee + summaries[k].issues_with_milestone

\* C7's case: a summary with comments, an assignee and a milestone counted.
C7_Witness ==
    \E k \in 1..Len(summaries) :
        /\ summaries[k].total_comments > 0
        /\ summaries[k].issues_with_assignee > 0
        /\ summaries[k].issues_with_milestone > 0

RECURSIVE AggregateAll(_, _)
\* The first loop of top_contributors_resource over a whole stream.
AggregateAll(stats, issues) ==
    IF issues = <<>> THEN Ret(stats)
    ELSE LET acc == Accumulate(stats, Head(issues)) IN
         IF acc.raised THEN acc ELSE AggregateAll(acc.val, Tail(issues))

\* What C8 compares: whether the aggregation failed and, per contributor, the
\* four fields.
Outcome(agg) ==
    IF agg.raised THEN [failed |-> TRUE]
    ELSE [failed |-> FALSE,
          per |-> {[contributor_login |-> agg.val[k].contributor_login,
                    total_issues |-> agg.val[k].total_issues,
                    total_comments |-> agg.val[k].total_comments,
                    labels_count |-> Cardinality(agg.val[k].labels_used),
                    contribution_score |-> ScoreHalves(agg.val[k])] :
                   k \in 1..Len(agg.val)}]

Orderings(issues) ==
    LET n == Len(issues) IN
    {[k \in 1..n |-> issues[f[k]]] :
        f \in {g \in [1..n -> 1..n] : \A i, j \in 1..n : i # j => g[i] # g[j]}}

\* C8 (as claimed): once the first loop of the aggregation has ended, by
\* exhaustion or by an exception, every ordering of the same issues gives the
\* same outcome: it fails or not as this run did and yields the same
\* total_issues, total_comments, labels_count and contribution_score per
\* contributor.
C8_OrderIndependent ==
    aggPc \in {"emit", "done", "failed"} =>
        LET stream == AcceptedIssues(Flatten(upstream))
            here == IF aggPc = "failed" THEN [failed |-> TRUE]
                    ELSE Outcome(Ret(contributor_stats))
        IN  \A other \in Orderings(stream) :
                Outcome(AggregateAll(<<>>, other)) = here

\* ---- normalize_title, on single records

UpperChars == {"A", "B"}
LowerChars == {"a", "b"}

\* The single call has emitted a record.
Emitted == Called /\ ~result.raised /\ result.val # <<>>

\* The title the transform reads: the raw title, "" when the key is absent.
RawTitle == Get(arg, "title", EmptyStr)

\* The title field of the record: the first 100 characters of the raw title.
TitleKept ==
    /\ result.val[1].title.t = "str"
    /\ result.val[1].title.s = SubSeq(RawTitle.s, 1, Min(Len(RawTitle.s), TitleLimit))

\* C9 (as claimed): the normalized_title of an emitted issue has no leading
\* or trailing whitespace and its first character is uppercase, whatever the
\* title (empty, whitespace-only, not beginning with a letter); title is left
\* unchanged.
C9_StrippedFirstUpper ==
    Emitted =>
        LET nt == result.val[1].normalized_title.s IN
        /\ nt # <<>>
        /\ nt[1] \in UpperChars
        /\ nt[1] \notin Whitespace /\ nt[Len(nt)] \notin Whitespace
        /\ TitleKept

\* C9 (amended): the normalized_title of an emitted issue has no leading or
\* trailing whitespace, is empty exactly when the title is empty or all
\* whitespace, begins with an uppercase character whenever the title's first
\* non-whitespace character is a letter, begins with that character unchanged
\* otherwise, and has no uppercase character after the first; title is left
\* unchanged.
C9_StrippedCapitalized ==
    Emitted =>
        LET nt == result.val[1].normalized_title.s
            t == RawTitle.s
            inner == {k \in 1..Len(t) : t[k] \notin Whitespace}
            first == CHOOSE k \in inner : \A j \in inner : k <= j
        IN  /\ nt = <<>> <=> inner = {}
            /\ nt # <<>> =>
                  /\ nt[1] \notin Whitespace /\ nt[Len(nt)] \notin Whitespace
                  /\ nt[1] \notin LowerChars
                  /\ t[first] \in UpperChars \cup LowerChars => nt[1] \in UpperChars
                  /\ t[first] \notin UpperChars \cup LowerChars => nt[1] = t[first]
                  /\ \A k \in 2..Len(nt) : nt[k] \notin UpperChars
            /\ TitleKept

\* C9's case: a title with whitespace around a lower-case beginning has been
\* normalized.
C9_Witness ==
    /\ Emitted
    /\ RawTitle = Str(<<" ", "a", " ">>)
    /\ result.val[1].normalized_title = Str(<<"A">>)

\* ---- run_source

Printed(name) == \E k \in 1..Len(output) : output[k].ev = name
PrintedBefore(a, b) ==
    \E i, j \in 1..Len(output) : i < j /\ output[i].ev = a /\ output[j].ev = b

\* C10 (as claimed): a run ends in success with the load summary and the
\* ranked contributor table both printed before the success message, or in
\* failure with the stack trace printed; no run reports success without having
\* printed the ranked table.
C10_SuccessHasRankedTable ==
    /\ runPc = "success" =>
          /\ PrintedBefore("load_info", "success")
          /\ PrintedBefore("table_header", "success")
    /\ runPc = "failed" => Printed("traceback")

\* C10 (amended): a run ends in success or in failure.  In success the load
\* summary was printed, then display_top_contributors printed the ranked
\* table, or that there is no contributor data, or the display error, and
\* then the success message was printed, with no stack trace.  In failure the
\* message and the stack trace were printed last, and neither the load
\* summary nor the success message was printed: run_source fails only before
\* the load summary.  The success message is printed in no other state.
C10_SuccessOrLoudFailure ==
    /\ runPc = "success" =>
          /\ PrintedBefore("load_info", "success")
          /\ \E shown \in {"table_header", "no_data", "display_error"} :
                \E i, j, k \in 1..Len(output) :
                    /\ i < j /\ j < k
                    /\ output[i].ev = "load_info" /\ output[j].ev = shown
                    /\ output[k].ev = "success"
          /\ output[Len(output)].ev = "success"
          /\ ~Printed("traceback")
    /\ runPc = "failed" =>
          /\ Len(output) >= 2
          /\ output[Len(output) - 1].ev = "run_error"
          /\ output[Len(output)].ev = "traceback"
          /\ ~Printed("load_info") /\ ~Printed("success")
    /\ Printed("success") => runPc = "success"

\* C10's case: the load succeeded, the display query failed, and the run has
\* reported success without a ranked table.
C10_Witness ==
    /\ runPc = "success"
    /\ Printed("load_info") /\ Printed("display_error")
    /\ ~Printed("table_header")
    /\ summaries # <<>>

\* ---- latest_activity

\* The non-null updated_at values of the issues of a login.
DatedOf(issues, login) ==
    {issues[k].updated_at : k \in {j \in 1..Len(issues) :
        /\ issues[j].contributor_login = login
        /\ issues[j].updated_at # None}}

\* The issues are well-formed but for updated_at, which is a str or null.
WellFormedButDates(issues) ==
    \A k \in 1..Len(issues) :
        /\ issues[k].comments_count.t = "int"
        /\ issues[k].updated_at.t \in {"str", "None"}

\* C11 (as claimed): the aggregation does not fail on issues whose updated_at
\* is null or missing, whichever of them comes first, and the latest_activity
\* of every emitted summary is the lexicographically greatest non-null
\* updated_at among the issues of that contributor.
C11_LatestActivityIsGreatest ==
    LET stream == AcceptedIssues(Flatten(upstream)) IN
    /\ WellFormedButDates(stream) => aggPc # "failed"
    /\ \A k \in 1..Len(summaries) :
          LET dated == DatedOf(stream, summaries[k].contributor_login) IN
          dated # {} =>
              /\ summaries[k].latest_activity \in dated
              /\ \A d \in dated : ~StrGreater(d.s, summaries[k].latest_activity.s)

\* ---- issues_with_milestone

\* The number of issues of a login whose normalized milestone is not null.
MilestonesOf(issues, login) ==
    Cardinality({k \in 1..Len(issues) :
        /\ issues[k].contributor_login = login
        /\ issues[k].milestone # None})

\* The raw record has a milestone object, and the normalized record carries
\* its title.
MilestoneIsTitle(item) ==
    (IsDict(item) /\ "milestone" \in DOMAIN item.d /\ IsDict(item.d.milestone)
        /\ "title" \in DOMAIN item.d.milestone.d /\ Accepted(item))
    => TransformTry(item).val.milestone = item.d.milestone.d.title

\* C12 (as claimed): once the aggregation has finished, the
\* issues_with_milestone of every summary is the number of that contributor's
\* issues whose normalized milestone is non-null, milestone being the title of
\* the milestone object of the raw record (an empty title included).
C12_MilestonesCounted ==
    aggPc = "done" =>
        LET raw == Flatten(upstream)
            stream == AcceptedIssues(raw)
        IN  /\ \A k \in 1..Len(raw) : MilestoneIsTitle(raw[k])
            /\ \A k \in 1..Len(summaries) :
                  summaries[k].issues_with_milestone
                      = MilestonesOf(stream, summaries[k].contributor_login)

\* ---- the two outputs of one run

\* Both resources have run to their end over the same upstream pages.
BothExhausted == issuesPc = "done" /\ aggPc = "done"

\* C13: in a run in which both ingestion passes read the same pages and both
\* resources have run to their end, the logins of the summaries are the
\* logins of the emitted issues, and the total_issues of the summaries add up
\* to the number of emitted issues.
C13_OutputsAgree ==
    BothExhausted =>
        /\ {summaries[k].contributor_login : k \in 1..Len(summaries)}
              = LoginsOf(issuesOut)
        /\ SumOf(summaries, "total_issues") = Len(issuesOut)

\* C13's case: both resources have finished over two issues of one
\* contributor: two emitted issues, one summary.
C13_Witness ==
    /\ BothExhausted
    /\ Len(issuesOut) = 2
    /\ Len(summaries) = 1

====
